---- MODULE Spec2Model ----
(***************************************************************************)
(* Model of the rocktree decode crate (rust/crates/rocktree-decode) and   *)
(* of the channel-based loader (crates/rocktree-client/src/loader.rs).     *)
(* Spec is one decode call; SpecLoader is the loader, which makes no       *)
(* decode call.                                                            *)
(*                                                                         *)
(* Every decode function is a pure function of its arguments, so each is   *)
(* an operator.  The state machine is one decode call: Init draws the      *)
(* function that is about to be called together with its arguments, and    *)
(* the Call action of that function applies it and stores what it          *)
(* returned.  Bytes are 0..255, a Vec / slice is a sequence, a String is   *)
(* a sequence of one-character strings, a DVec3 is a triple (checked over  *)
(* integer values), DecodeResult<T> is the record Ok(v) or Err(e).         *)
(***************************************************************************)
EXTENDS Integers, Sequences, FiniteSets, TLC

VARIABLES
    pc,                 \* "call": the call is pending; "done": it returned
    fn,                 \* the decode function being called
    packed,             \* the byte slice argument (`packed`)
    indices,            \* the `indices` argument of the octant step
    vertices,           \* the `vertices` buffer (&mut [Vertex])
    path_and_flags,     \* the u32 argument of unpack_path_and_flags
    head_node_center,   \* the Vec3 argument of unpack_obb
    meters_per_texel,   \* the f32 argument of unpack_obb
    offset,             \* the offset argument of read_varint
    mesh_normals,       \* Option<&[u8]> argument of unpack_normals
    for_normals,        \* Option<&[u8]> argument of unpack_normals
    vertex_count,       \* the usize argument of unpack_normals
    result              \* the value the call returned

\* The arguments of a decode call.
args == <<packed, indices, vertices, path_and_flags, head_node_center,
          meters_per_texel, offset, mesh_normals, for_normals, vertex_count>>

decodeVars == <<pc, fn, args, result>>

\* The channel-based loader (crates/rocktree-client/src/loader.rs).
VARIABLES
    started,            \* the Startup schedule (start_initial_load) has run
    pending_systems,    \* Update systems still to run in the current frame
    planetoid,          \* LoaderState.planetoid: Option<Planetoid>
    root_bulk,          \* LoaderState.root_bulk: Option<BulkMetadata>
    planetoid_chan,     \* messages queued in the planetoid channel
    bulk_chan,          \* messages queued in the bulk channel
    planetoid_tasks,    \* background tasks spawned to fetch the planetoid
    bulk_tasks          \* background tasks spawned to fetch the root bulk

loaderVars == <<started, pending_systems, planetoid, root_bulk,
                planetoid_chan, bulk_chan, planetoid_tasks, bulk_tasks>>

\* The task-polling loader (rust/crates/rocktree-client/src/loader.rs) and
\* fetch_nodes of the fetch_test_data binary.
VARIABLES
    startup_done,       \* the Startup schedule (start_initial_load) has run
    update_pending,     \* Update systems still to run in the current frame
    state_planetoid,    \* LoaderState.planetoid: Option<Planetoid>
    state_root_bulk,    \* LoaderState.root_bulk: Option<BulkMetadata>
    entities,           \* the entities the loader spawned, by entity id
    commands,           \* deferred Commands queued and not yet applied
    fetch_nodes_run     \* the run of fetch_nodes: its input, requests, result

taskVars == <<startup_done, update_pending, state_planetoid, state_root_bulk,
              entities, commands, fetch_nodes_run>>

\* The camera controller (crates/rocktree-client/src/camera.rs).
VARIABLES
    camera_pc,          \* the next step of the Startup/Update schedules
    grab_mode,          \* CursorOptions.grab_mode
    cursor_visible,     \* CursorOptions.visible
    keyboard_just_pressed, \* ButtonInput<KeyCode>: keys pressed this frame
    is_grabbed,         \* cursor_grab_system's local of the current frame
    base_speed,         \* CameraSettings.base_speed (meters per second)
    direction,          \* FlightCamera.direction as <<yaw, pitch>> steps
    position,           \* FloatingOriginCamera.position
    origin_position     \* FloatingOrigin.position

cameraVars == <<camera_pc, grab_mode, cursor_visible, keyboard_just_pressed,
                is_grabbed, base_speed, direction, position, origin_position>>

vars == <<decodeVars, loaderVars, taskVars, cameraVars>>

-----------------------------------------------------------------------------
(* Bounds of the explored inputs.                                          *)

\* Longest byte blob handed to the vertex and index unpackers.
MaxLen == 7

\* Largest packed path_and_flags value of the dense range 0..MaxPathAndFlags.
MaxPathAndFlags == 2047

\* Longest index sequence handed to the octant step.
MaxIndices == 3

\* Longest layer_and_octant_counts blob handed to the octant step.
MaxCountsLen == 2

\* Most bytes that follow the 4-byte header of a texture-coordinate blob.
MaxTexTrailing == 9

\* Largest vertex count (vertex buffer length) of the texture-coordinate
\* and normal steps.
MaxVertexCount == 2

\* Largest root_epoch a fetched planetoid carries.
MaxEpoch == 3

\* Largest number of nodes of a bulk.
MaxNodes == 5

\* Largest distance of the camera from its first position, per axis, in
\* frames of travel.
MaxPos == 1

-----------------------------------------------------------------------------
(* Values.                                                                 *)

\* Byte values the blobs are built from: zero, a small delta, and the
\* largest byte (which wraps an 8-bit sum and carries a varint
\* continuation bit).
ByteSamples == {0, 2, 255}

SeqsUpTo(S, n) == UNION {[1..k -> S] : k \in 0..n}

ByteSeqs == SeqsUpTo(ByteSamples, MaxLen)

\* DecodeResult<T>
Ok(v) == [kind |-> "Ok", value |-> v]

Err(e) == [kind |-> "Err", error |-> e]

\* The result slot before the call has returned.
Pending == [kind |-> "Pending"]

\* Option<T>
None == [some |-> FALSE]

Some(v) == [some |-> TRUE, value |-> v]

\* Vertex::default()
DefaultVertex == [x |-> 0, y |-> 0, z |-> 0, w |-> 0, u |-> 0, v |-> 0]

\* glam::DVec3::ZERO
DVec3_ZERO == <<0, 0, 0>>

\* glam::DMat3::IDENTITY
DMat3_IDENTITY == <<<<1, 0, 0>>, <<0, 1, 0>>, <<0, 0, 1>>>>

\* Length of the layer bounds array, [usize; 10].
LayerBoundsLen == 10

RECURSIVE Pow2(_)
Pow2(n) == IF n = 0 THEN 1 ELSE 2 * Pow2(n - 1)

\* Most continuation bytes a varint may carry: a 32-bit target needs at
\* most 5 bytes, 4 of them with the continuation bit.
VarintMaxContinuation == 4

\* The loop of read_varint with the continuation bit left in the data bits.
RECURSIVE ReadVarintLoopNoMask(_, _, _, _)
ReadVarintLoopNoMask(data, off, i, value) ==
    IF off + i >= Len(data) THEN Err("Truncated")
    ELSE LET b == data[off + i + 1]
             v == value + b * Pow2(7 * i)
         IN  IF b < 128 THEN Ok([value |-> v, consumed |-> i + 1])
             ELSE IF i + 1 > VarintMaxContinuation THEN Err("Malformed")
             ELSE ReadVarintLoopNoMask(data, off, i + 1, v)

\* A varint reader that forgets to strip the continuation bit.
read_varint_NoMask(data, off) == ReadVarintLoopNoMask(data, off, 0, 0)

\* The loop of read_varint: byte i (0-based) after the offset adds its 7
\* data bits at weight 128^i; a byte without the continuation bit ends the
\* varint; the slice ending first is Truncated; one continuation byte more
\* than VarintMaxContinuation is Malformed.
RECURSIVE ReadVarintLoop(_, _, _, _)
ReadVarintLoop(data, off, i, value) ==
    IF off + i >= Len(data) THEN Err("Truncated")
    ELSE LET b == data[off + i + 1]
             v == value + (b % 128) * Pow2(7 * i)
         IN  IF b < 128 THEN Ok([value |-> v, consumed |-> i + 1])
             ELSE IF i + 1 > VarintMaxContinuation THEN Err("Malformed")
             ELSE ReadVarintLoop(data, off, i + 1, v)

\* varint.rs: the value of the varint at `off` and the bytes it took.
read_varint(data, off) == ReadVarintLoop(data, off, 0, 0)

-----------------------------------------------------------------------------
(* The decode functions, as the source defines them.                       *)

\* vertices.rs: the argument is unused; the body is `Ok(Vec::new())`.
unpack_vertices(p) == Ok(<<>>)

\* indices.rs: the argument is unused; the body is `Ok(Vec::new())`.
unpack_indices(p) == Ok(<<>>)

\* path.rs: the argument is unused; the body builds
\* PathAndFlags { path: String::new(), flags: 0, level: 0 }.
unpack_path_and_flags(p) == [path |-> <<>>, flags |-> 0, level |-> 0]

\* obb.rs: the arguments are unused; the body is
\* Ok(OrientedBoundingBox { center: ZERO, extents: ZERO, orientation: IDENTITY }).
unpack_obb(p, center, mpt) ==
    Ok([center |-> DVec3_ZERO, extents |-> DVec3_ZERO,
        orientation |-> DMat3_IDENTITY])

\* A layer bounds computation that stores each layer's own count instead of
\* the running total: everything in the first layer, nothing after it.
unpack_octant_mask_and_layer_bounds_PerLayer(p, idx, verts) ==
    Ok([i \in 1..LayerBoundsLen |-> IF i = 1 THEN Len(idx) ELSE 0])

\* octants.rs: the arguments are unused (the vertex buffer is not written);
\* the body is `Ok([0; 10])`.
unpack_octant_mask_and_layer_bounds(p, idx, verts) ==
    Ok([i \in 1..LayerBoundsLen |-> 0])

\* UvTransform::default(): offset and scale are Vec2::ZERO.
UvTransform_default == [offset |-> <<0, 0>>, scale |-> <<0, 0>>]

\* texcoords.rs: the arguments are unused (the vertex buffer is not
\* written); the body is `Ok(UvTransform::default())`.
unpack_tex_coords(p, verts) == Ok(UvTransform_default)

\* normals.rs: the argument is unused; the body is `Ok(Vec::new())`.
unpack_for_normals(fnorm) == Ok(<<>>)

\* normals.rs: the arguments are unused; the body is `Ok(Vec::new())`.
unpack_normals(mnorm, fnorm, count) == Ok(<<>>)

-----------------------------------------------------------------------------
(* Arguments of the calls.                                                 *)

\* u32 inputs: a dense low range (every level, every digit of a level-2
\* path, flags 0..7) and values with the high bits set, up to the largest
\* integer the checker represents (2^31 - 1).
PathAndFlagsInputs ==
    (0..MaxPathAndFlags) \cup {1073741824, 2147483644, 2147483647}

\* OBB blobs of 14, 15 and 16 bytes: the first center-offset component
\* (bytes 0-1) and the three extent bytes (6-8) vary, the second and third
\* offsets are fixed to 2 and -256, the Euler bytes are zero.
ObbPacket(len, lo, hi, e) ==
    [i \in 1..len |->
        CASE i = 1 -> lo
          [] i = 2 -> hi
          [] i = 3 -> 2
          [] i = 6 -> 255
          [] i \in 7..9 -> e
          [] OTHER -> 0]

ObbPackets ==
    {ObbPacket(len, lo, hi, e) :
        len \in {14, 15, 16}, lo \in ByteSamples, hi \in ByteSamples,
        e \in ByteSamples}

Vec3Samples == {<<0, 0, 0>>, <<1, -2, 3>>}

ScaleSamples == {1, 2}

IndexSeqs == SeqsUpTo({0, 1}, MaxIndices)

CountsBlobs == SeqsUpTo(ByteSamples, MaxCountsLen)

\* The vertex buffer the octant step is handed: two decoded vertices.
VertexBuffer == <<DefaultVertex, [DefaultVertex EXCEPT !.x = 2]>>

-----------------------------------------------------------------------------
(* The state machine: one pending call, then its return.                   *)

\* Texture-coordinate blobs: a 4-byte header (u_mod in bytes 0-1, v_mod in
\* bytes 2-3 with a zero high byte) followed by t bytes that all hold b.
TexPacket(ulo, uhi, vlo, t, b) ==
    [i \in 1..(4 + t) |->
        CASE i = 1 -> ulo
          [] i = 2 -> uhi
          [] i = 3 -> vlo
          [] i = 4 -> 0
          [] OTHER -> b]

TexPackets ==
    {TexPacket(ulo, uhi, vlo, t, b) :
        ulo \in ByteSamples, uhi \in ByteSamples, vlo \in ByteSamples,
        t \in 0..MaxTexTrailing, b \in ByteSamples}

\* The vertex buffer of n vertices the texture-coordinate step is handed:
\* positions already decoded, w, u and v still zero.
TexVertexBuffer(n) ==
    [i \in 1..n |-> [DefaultVertex EXCEPT !.x = 2 * i, !.y = 255, !.z = i]]

\* Per-vertex lookup-index bytes of unpack_normals: absent, empty, or one
\* index per vertex of a two-vertex mesh.
MeshNormalsInputs == {None, Some(<<>>), Some(<<0, 2>>)}

\* Lookup tables of unpack_normals: absent, or a table of one RGB triple.
ForNormalsInputs == {None, Some(<<0, 2, 255>>)}

\* The decode functions a call can be made to.
DecodeFns ==
    {"unpack_vertices", "unpack_indices", "unpack_path_and_flags",
     "unpack_obb", "unpack_octant_mask_and_layer_bounds",
     "unpack_tex_coords", "unpack_for_normals", "unpack_normals",
     "read_varint"}

\* The byte slices drawn for the first argument of function f.
PackedInputs(f) ==
    CASE f \in {"unpack_vertices", "unpack_indices", "unpack_for_normals",
                 "read_varint"}
            -> ByteSeqs
      [] f = "unpack_obb" -> ObbPackets
      [] f = "unpack_octant_mask_and_layer_bounds" -> CountsBlobs
      [] f = "unpack_tex_coords" -> TexPackets
      [] OTHER -> {<<>>}

\* The vertex buffers drawn for function f.
VertexInputs(f) ==
    CASE f = "unpack_octant_mask_and_layer_bounds" -> {VertexBuffer}
      [] f = "unpack_tex_coords" ->
            {TexVertexBuffer(n) : n \in 0..MaxVertexCount}
      [] OTHER -> {<<>>}

\* LoaderState::default() and LoaderChannels::default(): nothing loaded, two
\* empty channels, no task spawned, no schedule run yet.
LoaderDefault ==
    /\ started = FALSE
    /\ pending_systems = {}
    /\ planetoid = None
    /\ root_bulk = None
    /\ planetoid_chan = <<>>
    /\ bulk_chan = <<>>
    /\ planetoid_tasks = <<>>
    /\ bulk_tasks = <<>>

\* The task-polling loader before Startup; fetch_nodes not called.
TaskDefault ==
    /\ startup_done = FALSE
    /\ update_pending = {}
    /\ state_planetoid = None
    /\ state_root_bulk = None
    /\ entities = <<>>
    /\ commands = <<>>
    /\ fetch_nodes_run = [status |-> "not run", nodes |-> <<>>,
                          requests |-> <<>>]

\* CameraSettings::default().base_speed
DefaultBaseSpeed == 1000

\* The camera controller before Startup: the window's cursor is free, the
\* settings and the camera are at their defaults.
CameraDefault ==
    /\ camera_pc = "startup"
    /\ grab_mode = "None"
    /\ cursor_visible = TRUE
    /\ keyboard_just_pressed = {}
    /\ is_grabbed = FALSE
    /\ base_speed = DefaultBaseSpeed
    /\ direction = <<0, 0>>
    /\ position = DVec3_ZERO
    /\ origin_position = DVec3_ZERO

\* A pending call of one decode function: the arguments the function takes
\* are drawn from their input sets, the others are at their defaults.
InitDecode ==
    /\ pc = "call"
    /\ result = Pending
    /\ fn \in DecodeFns
    /\ packed \in PackedInputs(fn)
    /\ indices \in
          IF fn = "unpack_octant_mask_and_layer_bounds" THEN IndexSeqs
          ELSE {<<>>}
    /\ vertices \in VertexInputs(fn)
    /\ path_and_flags \in
          IF fn = "unpack_path_and_flags" THEN PathAndFlagsInputs ELSE {0}
    /\ head_node_center \in
          IF fn = "unpack_obb" THEN Vec3Samples ELSE {DVec3_ZERO}
    /\ meters_per_texel \in IF fn = "unpack_obb" THEN ScaleSamples ELSE {1}
    /\ offset \in IF fn = "read_varint" THEN 0..Len(packed) ELSE {0}
    /\ mesh_normals \in
          IF fn = "unpack_normals" THEN MeshNormalsInputs ELSE {None}
    /\ for_normals \in
          IF fn = "unpack_normals" THEN ForNormalsInputs ELSE {None}
    /\ vertex_count \in
          IF fn = "unpack_normals" THEN 0..MaxVertexCount ELSE {0}
    /\ LoaderDefault
    /\ TaskDefault
    /\ CameraDefault

Init == InitDecode

Returned(f) == pc = "done" /\ fn = f

CallUnpackVertices ==
    /\ pc = "call" /\ fn = "unpack_vertices"
    /\ result' = unpack_vertices(packed)
    /\ pc' = "done"
    /\ UNCHANGED <<fn, args, loaderVars, taskVars, cameraVars>>

CallUnpackIndices ==
    /\ pc = "call" /\ fn = "unpack_indices"
    /\ result' = unpack_indices(packed)
    /\ pc' = "done"
    /\ UNCHANGED <<fn, args, loaderVars, taskVars, cameraVars>>

CallUnpackPathAndFlags ==
    /\ pc = "call" /\ fn = "unpack_path_and_flags"
    /\ result' = unpack_path_and_flags(path_and_flags)
    /\ pc' = "done"
    /\ UNCHANGED <<fn, args, loaderVars, taskVars, cameraVars>>

CallUnpackObb ==
    /\ pc = "call" /\ fn = "unpack_obb"
    /\ result' = unpack_obb(packed, head_node_center, meters_per_texel)
    /\ pc' = "done"
    /\ UNCHANGED <<fn, args, loaderVars, taskVars, cameraVars>>

\* The vertex buffer is passed by &mut; the body never writes it.
CallUnpackOctantMaskAndLayerBounds ==
    /\ pc = "call" /\ fn = "unpack_octant_mask_and_layer_bounds"
    /\ result' = unpack_octant_mask_and_layer_bounds(packed, indices, vertices)
    /\ vertices' = vertices
    /\ pc' = "done"
    /\ UNCHANGED <<fn, packed, indices, path_and_flags, head_node_center,
                   meters_per_texel, offset, mesh_normals, for_normals,
                   vertex_count, loaderVars, taskVars, cameraVars>>

\* The vertex buffer is passed by &mut; the body never writes it.
CallUnpackTexCoords ==
    /\ pc = "call" /\ fn = "unpack_tex_coords"
    /\ result' = unpack_tex_coords(packed, vertices)
    /\ vertices' = vertices
    /\ pc' = "done"
    /\ UNCHANGED <<fn, packed, indices, path_and_flags, head_node_center,
                   meters_per_texel, offset, mesh_normals, for_normals,
                   vertex_count, loaderVars, taskVars, cameraVars>>

CallUnpackForNormals ==
    /\ pc = "call" /\ fn = "unpack_for_normals"
    /\ result' = unpack_for_normals(packed)
    /\ pc' = "done"
    /\ UNCHANGED <<fn, args, loaderVars, taskVars, cameraVars>>

CallUnpackNormals ==
    /\ pc = "call" /\ fn = "unpack_normals"
    /\ result' = unpack_normals(mesh_normals, for_normals, vertex_count)
    /\ pc' = "done"
    /\ UNCHANGED <<fn, args, loaderVars, taskVars, cameraVars>>

CallReadVarint ==
    /\ pc = "call" /\ fn = "read_varint"
    /\ result' = read_varint(packed, offset)
    /\ pc' = "done"
    /\ UNCHANGED <<fn, args, loaderVars, taskVars, cameraVars>>

Next ==
    \/ CallUnpackVertices
    \/ CallUnpackIndices
    \/ CallUnpackPathAndFlags
    \/ CallUnpackObb
    \/ CallUnpackOctantMaskAndLayerBounds
    \/ CallUnpackTexCoords
    \/ CallUnpackForNormals
    \/ CallUnpackNormals
    \/ CallReadVarint

Spec == Init /\ [][Next]_vars

-----------------------------------------------------------------------------
(* The channel-based loader: crates/rocktree-client/src/loader.rs.         *)
(* A background task fetches, then sends its Result into a channel of      *)
(* capacity 1; the Update systems poll the channels once per frame, in an  *)
(* order the schedule does not fix.                                        *)

\* async_channel::bounded(1)
ChannelCapacity == 1

\* The Update systems of DataLoaderPlugin.
UpdateSystems == {"poll_planetoid_task", "poll_bulk_task"}

\* What client.fetch_planetoid() can return.
PlanetoidResults ==
    {Ok([root_epoch |-> e]) : e \in 1..MaxEpoch} \cup {Err("rocktree::Error")}

\* BulkRequest::root(epoch)
BulkRequest_root(epoch) == [path |-> "", epoch |-> epoch]

\* What client.fetch_bulk(&request) can return.
BulkResults(request) ==
    {Ok([path |-> request.path, epoch |-> request.epoch]),
     Err("rocktree::Error")}

\* A spawned task: first the fetch, then the send, then it is over.
NewTask(request) == [pc |-> "fetch", request |-> request, result |-> Pending]

\* No decode call is part of the loader.
DecodeIdle ==
    /\ pc = "idle"
    /\ fn = "none"
    /\ result = Pending
    /\ packed = <<>>
    /\ indices = <<>>
    /\ vertices = <<>>
    /\ path_and_flags = 0
    /\ head_node_center = DVec3_ZERO
    /\ meters_per_texel = 1
    /\ offset = 0
    /\ mesh_normals = None
    /\ for_normals = None
    /\ vertex_count = 0

InitLoader == DecodeIdle /\ LoaderDefault /\ TaskDefault /\ CameraDefault

\* start_initial_load with both of its spawn blocks compiled in: two
\* planetoid fetches.
StartInitialLoad_Twice ==
    /\ ~started
    /\ started' = TRUE
    /\ planetoid_tasks' =
          planetoid_tasks \o <<NewTask("planetoid"), NewTask("planetoid")>>
    /\ UNCHANGED <<pending_systems, planetoid, root_bulk, planetoid_chan,
                   bulk_chan, bulk_tasks, decodeVars, taskVars, cameraVars>>

\* Startup: start_initial_load spawns the planetoid fetch.
StartInitialLoad ==
    /\ ~started
    /\ started' = TRUE
    /\ planetoid_tasks' = Append(planetoid_tasks, NewTask("planetoid"))
    /\ UNCHANGED <<pending_systems, planetoid, root_bulk, planetoid_chan,
                   bulk_chan, bulk_tasks, decodeVars, taskVars, cameraVars>>

\* A new Update frame: every Update system runs once in it.
BeginFrame ==
    /\ started
    /\ pending_systems = {}
    /\ pending_systems' = UpdateSystems
    /\ UNCHANGED <<started, planetoid, root_bulk, planetoid_chan, bulk_chan,
                   planetoid_tasks, bulk_tasks, decodeVars, taskVars, cameraVars>>

\* Background task i: `client.fetch_planetoid().await` returns r.
PlanetoidFetchReturns(i, r) ==
    /\ planetoid_tasks[i].pc = "fetch"
    /\ planetoid_tasks' =
          [planetoid_tasks EXCEPT ![i] = [@ EXCEPT !.pc = "send", !.result = r]]
    /\ UNCHANGED <<started, pending_systems, planetoid, root_bulk,
                   planetoid_chan, bulk_chan, bulk_tasks, decodeVars, taskVars, cameraVars>>

\* Background task i: `tx.send(result).await` completes once the channel
\* has room.
PlanetoidSend(i) ==
    /\ planetoid_tasks[i].pc = "send"
    /\ Len(planetoid_chan) < ChannelCapacity
    /\ planetoid_chan' = Append(planetoid_chan, planetoid_tasks[i].result)
    /\ planetoid_tasks' = [planetoid_tasks EXCEPT ![i] = [@ EXCEPT !.pc = "done"]]
    /\ UNCHANGED <<started, pending_systems, planetoid, root_bulk, bulk_chan,
                   bulk_tasks, decodeVars, taskVars, cameraVars>>

\* Background task i: `client.fetch_bulk(&request).await` returns r.
BulkFetchReturns(i, r) ==
    /\ bulk_tasks[i].pc = "fetch"
    /\ bulk_tasks' =
          [bulk_tasks EXCEPT ![i] = [@ EXCEPT !.pc = "send", !.result = r]]
    /\ UNCHANGED <<started, pending_systems, planetoid, root_bulk,
                   planetoid_chan, bulk_chan, planetoid_tasks, decodeVars, taskVars, cameraVars>>

BulkSend(i) ==
    /\ bulk_tasks[i].pc = "send"
    /\ Len(bulk_chan) < ChannelCapacity
    /\ bulk_chan' = Append(bulk_chan, bulk_tasks[i].result)
    /\ bulk_tasks' = [bulk_tasks EXCEPT ![i] = [@ EXCEPT !.pc = "done"]]
    /\ UNCHANGED <<started, pending_systems, planetoid, root_bulk,
                   planetoid_chan, planetoid_tasks, decodeVars, taskVars, cameraVars>>

\* poll_planetoid_task that starts the root bulk fetch whatever the result
\* is (with the first epoch after an Err) and stores only an Ok planetoid.
PollPlanetoidTask_SpawnsOnErr ==
    /\ "poll_planetoid_task" \in pending_systems
    /\ pending_systems' = pending_systems \ {"poll_planetoid_task"}
    /\ IF planetoid.some \/ planetoid_chan = <<>>
       THEN UNCHANGED <<planetoid, planetoid_chan, bulk_tasks>>
       ELSE /\ planetoid_chan' = Tail(planetoid_chan)
            /\ IF Head(planetoid_chan).kind = "Ok"
               THEN /\ bulk_tasks' =
                         Append(bulk_tasks,
                                NewTask(BulkRequest_root(
                                    Head(planetoid_chan).value.root_epoch)))
                    /\ planetoid' = Some(Head(planetoid_chan).value)
               ELSE /\ bulk_tasks' =
                         Append(bulk_tasks, NewTask(BulkRequest_root(1)))
                    /\ planetoid' = planetoid
    /\ UNCHANGED <<started, root_bulk, bulk_chan, planetoid_tasks, decodeVars, taskVars, cameraVars>>

\* poll_planetoid_task with both of its spawn blocks compiled in: two root
\* bulk fetches on an Ok result.
PollPlanetoidTask_SpawnsTwice ==
    /\ "poll_planetoid_task" \in pending_systems
    /\ pending_systems' = pending_systems \ {"poll_planetoid_task"}
    /\ IF planetoid.some \/ planetoid_chan = <<>>
       THEN UNCHANGED <<planetoid, planetoid_chan, bulk_tasks>>
       ELSE /\ planetoid_chan' = Tail(planetoid_chan)
            /\ IF Head(planetoid_chan).kind = "Ok"
               THEN /\ bulk_tasks' =
                         bulk_tasks \o
                         <<NewTask(BulkRequest_root(
                               Head(planetoid_chan).value.root_epoch)),
                           NewTask(BulkRequest_root(
                               Head(planetoid_chan).value.root_epoch))>>
                    /\ planetoid' = Some(Head(planetoid_chan).value)
               ELSE UNCHANGED <<planetoid, bulk_tasks>>
    /\ UNCHANGED <<started, root_bulk, bulk_chan, planetoid_tasks, decodeVars, taskVars, cameraVars>>

\* poll_planetoid_task that starts the root bulk fetch on an Ok result but
\* never stores the planetoid.
PollPlanetoidTask_NoStore ==
    /\ "poll_planetoid_task" \in pending_systems
    /\ pending_systems' = pending_systems \ {"poll_planetoid_task"}
    /\ IF planetoid.some \/ planetoid_chan = <<>>
       THEN UNCHANGED <<planetoid, planetoid_chan, bulk_tasks>>
       ELSE /\ planetoid_chan' = Tail(planetoid_chan)
            /\ planetoid' = planetoid
            /\ IF Head(planetoid_chan).kind = "Ok"
               THEN bulk_tasks' =
                      Append(bulk_tasks,
                             NewTask(BulkRequest_root(
                                 Head(planetoid_chan).value.root_epoch)))
               ELSE bulk_tasks' = bulk_tasks
    /\ UNCHANGED <<started, root_bulk, bulk_chan, planetoid_tasks, decodeVars, taskVars, cameraVars>>

\* Update: poll_planetoid_task.  Returns at once when the planetoid is
\* loaded or try_recv finds no message; an Ok result spawns the root bulk
\* fetch and is stored; an Err result is only logged.
PollPlanetoidTask ==
    /\ "poll_planetoid_task" \in pending_systems
    /\ pending_systems' = pending_systems \ {"poll_planetoid_task"}
    /\ IF planetoid.some \/ planetoid_chan = <<>>
       THEN UNCHANGED <<planetoid, planetoid_chan, bulk_tasks>>
       ELSE /\ planetoid_chan' = Tail(planetoid_chan)
            /\ IF Head(planetoid_chan).kind = "Ok"
               THEN /\ bulk_tasks' =
                         Append(bulk_tasks,
                                NewTask(BulkRequest_root(
                                    Head(planetoid_chan).value.root_epoch)))
                    /\ planetoid' = Some(Head(planetoid_chan).value)
               ELSE UNCHANGED <<planetoid, bulk_tasks>>
    /\ UNCHANGED <<started, root_bulk, bulk_chan, planetoid_tasks, decodeVars, taskVars, cameraVars>>

\* poll_bulk_task that takes the message off the channel and drops it.
PollBulkTask_DropsResult ==
    /\ "poll_bulk_task" \in pending_systems
    /\ pending_systems' = pending_systems \ {"poll_bulk_task"}
    /\ IF root_bulk.some \/ bulk_chan = <<>>
       THEN UNCHANGED <<root_bulk, bulk_chan>>
       ELSE /\ bulk_chan' = Tail(bulk_chan)
            /\ root_bulk' = root_bulk
    /\ UNCHANGED <<started, planetoid, planetoid_chan, planetoid_tasks,
                   bulk_tasks, decodeVars, taskVars, cameraVars>>

\* Update: poll_bulk_task.  Returns at once when the root bulk is loaded or
\* try_recv finds no message; an Ok result is stored; an Err result is only
\* logged.
PollBulkTask ==
    /\ "poll_bulk_task" \in pending_systems
    /\ pending_systems' = pending_systems \ {"poll_bulk_task"}
    /\ IF root_bulk.some \/ bulk_chan = <<>>
       THEN UNCHANGED <<root_bulk, bulk_chan>>
       ELSE /\ bulk_chan' = Tail(bulk_chan)
            /\ IF Head(bulk_chan).kind = "Ok"
               THEN root_bulk' = Some(Head(bulk_chan).value)
               ELSE root_bulk' = root_bulk
    /\ UNCHANGED <<started, planetoid, planetoid_chan, planetoid_tasks,
                   bulk_tasks, decodeVars, taskVars, cameraVars>>

PlanetoidTaskStep ==
    \E i \in DOMAIN planetoid_tasks :
        \/ \E r \in PlanetoidResults : PlanetoidFetchReturns(i, r)
        \/ PlanetoidSend(i)

BulkTaskStep ==
    \E i \in DOMAIN bulk_tasks :
        \/ \E r \in BulkResults(bulk_tasks[i].request) : BulkFetchReturns(i, r)
        \/ BulkSend(i)

\* The sends of the background tasks (the runtime keeps running a task that
\* can go on).
TaskSends ==
    \/ \E i \in DOMAIN planetoid_tasks : PlanetoidSend(i)
    \/ \E i \in DOMAIN bulk_tasks : BulkSend(i)

NextLoader ==
    \/ StartInitialLoad
    \/ BeginFrame
    \/ PollPlanetoidTask
    \/ PollBulkTask
    \/ PlanetoidTaskStep
    \/ BulkTaskStep

SpecLoader == InitLoader /\ [][NextLoader]_vars

\* The loader with its schedules and its runtime running: Startup runs, the
\* frames go on, every Update system runs in its frame, and a task that can
\* send does.  A fetch is not obliged to return.
SpecLoaderFair ==
    /\ SpecLoader
    /\ WF_vars(StartInitialLoad)
    /\ WF_vars(BeginFrame)
    /\ WF_vars(PollPlanetoidTask)
    /\ WF_vars(PollBulkTask)
    /\ WF_vars(TaskSends)

-----------------------------------------------------------------------------
(* The task-polling loader: rust/crates/rocktree-client/src/loader.rs.     *)
(* Each fetch runs as a task on AsyncComputeTaskPool and is held by an     *)
(* entity (PlanetoidTask, BulkTask, NodeTask); the Update systems poll the *)
(* tasks of the live entities once per frame, in an order the schedule     *)
(* does not fix. Commands (spawn, despawn) are deferred: they are applied  *)
(* when the schedule has run its systems.                                  *)

\* The Update systems of DataLoaderPlugin.
TaskUpdateSystems ==
    {"poll_planetoid_task", "poll_bulk_task", "poll_node_task"}

\* The components that hold a task.
TaskComponents == {"PlanetoidTask", "BulkTask", "NodeTask"}

\* What client.fetch_planetoid() can return: the first or the last epoch,
\* or an error.
TaskPlanetoidResults ==
    {Ok([root_epoch |-> e]) : e \in {1, MaxEpoch}} \cup {Err("rocktree::Error")}

\* bulk.nodes: node i of the bulk (its path is written i) and its has_data.
NodeMetas(flags) == [i \in 1..Len(flags) |-> [path |-> i, has_data |-> flags[i]]]

\* The node lists a bulk can hold.
NodeLists == {NodeMetas(flags) : flags \in SeqsUpTo(BOOLEAN, MaxNodes)}

\* What client.fetch_bulk(&req) can return: the bulk at the request's path
\* with any node list, or an error.
BulkMetadataResults(request) ==
    {Ok([path |-> request.path, epoch |-> request.epoch, nodes |-> ns]) :
        ns \in NodeLists} \cup {Err("rocktree::Error")}

\* NodeRequest::new(node_meta.path.clone(), ...)
NodeRequest_new(node_meta) == [path |-> node_meta.path]

\* node.meshes.len(): a node without meshes and a node with one.
MeshCounts == {0, 1}

\* What client.fetch_node(&req) can return: a node with some meshes, or an
\* error.
NodeResults(request) ==
    {Ok([path |-> request.path, meshes |-> n]) : n \in MeshCounts}
        \cup {Err("rocktree::Error")}

\* What the task of an entity can return.
TaskResults(entity) ==
    CASE entity.component = "PlanetoidTask" -> TaskPlanetoidResults
      [] entity.component = "BulkTask" -> BulkMetadataResults(entity.request)
      [] entity.component = "NodeTask" -> NodeResults(entity.request)
      [] OTHER -> {}

\* The loader's view of the world inside one system: the entities, the
\* system's Commands and the LoaderState fields.
World ==
    [entities |-> entities, commands |-> commands,
     planetoid |-> state_planetoid, root_bulk |-> state_root_bulk]

\* commands.spawn(component): the entity id is reserved at once, the entity
\* joins the world when the command is applied. A task entity's task is
\* already running; `taken` counts the polls that found it finished.
Spawn(w, component, request) ==
    [w EXCEPT
        !.entities = Append(@, [component |-> component, request |-> request,
                                result |-> Pending, taken |-> 0,
                                alive |-> "queued"]),
        !.commands = Append(@, [op |-> "spawn",
                                entity |-> Len(w.entities) + 1])]

\* commands.entity(entity).despawn()
Despawn(w, entity) ==
    [w EXCEPT !.commands = Append(@, [op |-> "despawn", entity |-> entity])]

\* future::poll_once(&mut task) returned Some(result).
Taken(w, entity) == [w EXCEPT !.entities[entity].taken = @ + 1]

\* The body of poll_planetoid_task's loop for an entity whose task is
\* finished.
PlanetoidTaskReady(w, entity) ==
    LET r == w.entities[entity].result
        w1 == Despawn(Taken(w, entity), entity)
    IN  IF r.kind = "Ok"
        THEN [Spawn(w1, "BulkTask", BulkRequest_root(r.value.root_epoch))
                EXCEPT !.planetoid = Some(r.value)]
        ELSE w1

\* Limit of the initial load: `if loaded >= 3 { break; }`.
InitialNodeLimit == 3

\* One iteration of poll_bulk_task's loop over bulk.nodes that checks the
\* limit first and counts the nodes without data as loaded.
QueueNode_CountsSkipped(acc, node_meta) ==
    IF acc.stop THEN acc
    ELSE IF acc.loaded >= InitialNodeLimit THEN [acc EXCEPT !.stop = TRUE]
    ELSE IF ~node_meta.has_data THEN [acc EXCEPT !.loaded = @ + 1]
    ELSE [acc EXCEPT
            !.w = Spawn(acc.w, "NodeTask", NodeRequest_new(node_meta)),
            !.loaded = @ + 1]

\* One iteration of poll_bulk_task's loop over bulk.nodes: `stop` is set by
\* the break.
QueueNode(acc, node_meta) ==
    IF acc.stop THEN acc
    ELSE IF ~node_meta.has_data THEN acc
    ELSE IF acc.loaded >= InitialNodeLimit THEN [acc EXCEPT !.stop = TRUE]
    ELSE [acc EXCEPT
            !.w = Spawn(acc.w, "NodeTask", NodeRequest_new(node_meta)),
            !.loaded = @ + 1]

\* for node_meta in &bulk.nodes { ... }
RECURSIVE QueueNodes(_, _, _)
QueueNodes(acc, nodes, i) ==
    IF i > Len(nodes) THEN acc
    ELSE QueueNodes(QueueNode(acc, nodes[i]), nodes, i + 1)

\* The body of poll_bulk_task's loop for an entity whose task is finished.
BulkTaskReady(w, entity) ==
    LET r == w.entities[entity].result
        w1 == Despawn(Taken(w, entity), entity)
    IN  IF r.kind = "Ok"
        THEN LET w2 == QueueNodes([w |-> w1, loaded |-> 0, stop |-> FALSE],
                                  r.value.nodes, 1).w
             IN  IF w.entities[entity].request.path = ""
                 THEN [w2 EXCEPT !.root_bulk = Some(r.value)]
                 ELSE w2
        ELSE w1

\* for rocktree_mesh in &node.meshes { commands.spawn((Mesh3d, ...)) }
RECURSIVE SpawnMeshes(_, _, _)
SpawnMeshes(w, node, n) ==
    IF n = 0 THEN w
    ELSE SpawnMeshes(Spawn(w, "Mesh", [path |-> node.path]), node, n - 1)

\* The body of poll_node_task's loop that despawns the entity in the Ok
\* arm only.
NodeTaskReady_KeepsFailed(w, entity) ==
    LET r == w.entities[entity].result
    IN  IF r.kind = "Ok"
        THEN SpawnMeshes(Despawn(Taken(w, entity), entity), r.value,
                         r.value.meshes)
        ELSE Taken(w, entity)

\* The body of poll_node_task's loop for an entity whose task is finished.
NodeTaskReady(w, entity) ==
    LET r == w.entities[entity].result
        w1 == Despawn(Taken(w, entity), entity)
    IN  IF r.kind = "Ok"
        THEN SpawnMeshes(w1, r.value, r.value.meshes)
        ELSE w1

\* for (entity, task) in &mut query { if let Some(result) = poll_once ... }:
\* the live entities with the component, in id order, from entity e on.
RECURSIVE PollTasks(_, _, _)
PollTasks(w, component, e) ==
    IF e > Len(entities) THEN w
    ELSE IF /\ entities[e].component = component
            /\ entities[e].alive = "spawned"
            /\ entities[e].result.kind # "Pending"
         THEN PollTasks(
                 CASE component = "PlanetoidTask" -> PlanetoidTaskReady(w, e)
                   [] component = "BulkTask" -> BulkTaskReady(w, e)
                   [] component = "NodeTask" -> NodeTaskReady(w, e),
                 component, e + 1)
         ELSE PollTasks(w, component, e + 1)

\* The system left the world as w.
Leaves(w) ==
    /\ entities' = w.entities
    /\ commands' = w.commands
    /\ state_planetoid' = w.planetoid
    /\ state_root_bulk' = w.root_bulk

\* Startup: start_initial_load spawns the planetoid task and its entity.
start_initial_load ==
    /\ ~startup_done
    /\ fetch_nodes_run.status = "not run"
    /\ startup_done' = TRUE
    /\ Leaves(Spawn(World, "PlanetoidTask", "planetoid"))
    /\ UNCHANGED <<update_pending, fetch_nodes_run, decodeVars, loaderVars,
                   cameraVars>>

\* A schedule has run its systems: their Commands are applied in order.
RECURSIVE Apply(_, _)
Apply(ents, cmds) ==
    IF cmds = <<>> THEN ents
    ELSE Apply([ents EXCEPT ![Head(cmds).entity].alive =
                    IF Head(cmds).op = "spawn" THEN "spawned"
                    ELSE "despawned"],
               Tail(cmds))

ApplyDeferred ==
    /\ startup_done
    /\ update_pending = {}
    /\ commands # <<>>
    /\ entities' = Apply(entities, commands)
    /\ commands' = <<>>
    /\ UNCHANGED <<startup_done, update_pending, state_planetoid,
                   state_root_bulk, fetch_nodes_run, decodeVars, loaderVars,
                   cameraVars>>

\* A frame begins: every Update system is to run once.
TaskBeginFrame ==
    /\ startup_done
    /\ update_pending = {}
    /\ commands = <<>>
    /\ update_pending' = TaskUpdateSystems
    /\ UNCHANGED <<startup_done, state_planetoid, state_root_bulk, entities,
                   commands, fetch_nodes_run, decodeVars, loaderVars,
                   cameraVars>>

\* The task of an entity finishes on the task pool with result r.
TaskFinishes(e, r) ==
    /\ entities[e].component \in TaskComponents
    /\ entities[e].result.kind = "Pending"
    /\ entities' = [entities EXCEPT ![e].result = r]
    /\ UNCHANGED <<startup_done, update_pending, state_planetoid,
                   state_root_bulk, commands, fetch_nodes_run, decodeVars,
                   loaderVars, cameraVars>>

TaskPoolStep ==
    \E e \in DOMAIN entities : \E r \in TaskResults(entities[e]) :
        TaskFinishes(e, r)

poll_planetoid_task ==
    /\ "poll_planetoid_task" \in update_pending
    /\ update_pending' = update_pending \ {"poll_planetoid_task"}
    /\ Leaves(PollTasks(World, "PlanetoidTask", 1))
    /\ UNCHANGED <<startup_done, fetch_nodes_run, decodeVars, loaderVars,
                   cameraVars>>

poll_bulk_task ==
    /\ "poll_bulk_task" \in update_pending
    /\ update_pending' = update_pending \ {"poll_bulk_task"}
    /\ Leaves(PollTasks(World, "BulkTask", 1))
    /\ UNCHANGED <<startup_done, fetch_nodes_run, decodeVars, loaderVars,
                   cameraVars>>

poll_node_task ==
    /\ "poll_node_task" \in update_pending
    /\ update_pending' = update_pending \ {"poll_node_task"}
    /\ Leaves(PollTasks(World, "NodeTask", 1))
    /\ UNCHANGED <<startup_done, fetch_nodes_run, decodeVars, loaderVars,
                   cameraVars>>

-----------------------------------------------------------------------------

(* fetch_nodes of rust/crates/rocktree/src/bin/fetch_test_data.rs: the     *)
(* same selection loop, run sequentially; every `?` returns the error.     *)

\* let max_nodes = 3;
max_nodes == 3

\* What the awaits of one loop iteration can do: all succeed ("Ok"), or one
\* of the `?` after the node request returns its error ("Err").
FetchOutcomes == [1..max_nodes -> {"Ok", "Err"}]

\* One iteration of fetch_nodes's loop; outcomes[k] is the outcome of the
\* k-th node that is requested.
FetchNode(acc, node_meta, outcomes) ==
    IF acc.status # "running" THEN acc
    ELSE IF ~node_meta.has_data THEN acc
    ELSE IF acc.nodes_fetched >= max_nodes
         THEN [acc EXCEPT !.status = "break"]
    ELSE IF outcomes[acc.nodes_fetched + 1] = "Err"
         THEN [acc EXCEPT
                 !.requests = Append(@, NodeRequest_new(node_meta)),
                 !.status = "Err"]
    ELSE [acc EXCEPT
             !.requests = Append(@, NodeRequest_new(node_meta)),
             !.nodes_fetched = @ + 1]

\* for node_meta in &root_bulk.nodes { ... }
RECURSIVE FetchNodesLoop(_, _, _, _)
FetchNodesLoop(acc, nodes, i, outcomes) ==
    IF i > Len(nodes) THEN acc
    ELSE FetchNodesLoop(FetchNode(acc, nodes[i], outcomes), nodes, i + 1,
                        outcomes)

\* fetch_nodes(client, output_path, root_bulk): the node requests it sent
\* and the Result it returned.
fetch_nodes(nodes, outcomes) ==
    LET acc == FetchNodesLoop([requests |-> <<>>, nodes_fetched |-> 0,
                               status |-> "running"], nodes, 1, outcomes)
    IN  [status |-> IF acc.status = "Err" THEN "Err" ELSE "Ok",
         nodes |-> nodes,
         requests |-> acc.requests]

\* main calls fetch_nodes with the root bulk it fetched. A run is a run of
\* fetch_test_data or of the client, not of both.
CallFetchNodes ==
    /\ ~startup_done
    /\ fetch_nodes_run.status = "not run"
    /\ \E nodes \in NodeLists : \E outcomes \in FetchOutcomes :
          fetch_nodes_run' = fetch_nodes(nodes, outcomes)
    /\ UNCHANGED <<startup_done, update_pending, state_planetoid,
                   state_root_bulk, entities, commands, decodeVars,
                   loaderVars, cameraVars>>

InitTaskLoader == DecodeIdle /\ LoaderDefault /\ TaskDefault /\ CameraDefault

NextTaskLoader ==
    \/ start_initial_load
    \/ ApplyDeferred
    \/ TaskBeginFrame
    \/ TaskPoolStep
    \/ poll_planetoid_task
    \/ poll_bulk_task
    \/ poll_node_task
    \/ CallFetchNodes

SpecTaskLoader == InitTaskLoader /\ [][NextTaskLoader]_vars

-----------------------------------------------------------------------------

(* The camera controller: crates/rocktree-client/src/camera.rs.            *)
(* grab_cursor runs at Startup; the five Update systems run chained, one   *)
(* after the other, every frame. A run condition is evaluated when its     *)
(* system is about to run. Speeds are whole meters per second; the         *)
(* direction is <<yaw, pitch>> in quarter turns of yaw and in steps of     *)
(* pitch between straight down (-PitchLimit) and straight up (PitchLimit); *)
(* the position is counted in frames of travel along the camera's          *)
(* forward, right and up axes.                                             *)

MIN_SPEED == 10
MAX_SPEED == 25000

\* Yaw steps in a full turn.
YawSteps == 4

\* The pitch step at which direction.dot(-up) passes 0.99 in size.
PitchLimit == 1

\* The Update systems, in the order .chain() gives them.
CameraChain ==
    <<"cursor_grab_system", "adjust_speed_with_scroll", "camera_look",
      "camera_movement", "sync_floating_origin">>

\* What runs after a step: the next system of the chain; after the last
\* one the frame is over; after Startup and between frames, the first one.
ChainNext(step) ==
    IF \E i \in 1..(Len(CameraChain) - 1) : CameraChain[i] = step
    THEN CameraChain[(CHOOSE i \in 1..Len(CameraChain) :
                         CameraChain[i] = step) + 1]
    ELSE IF step = "idle" THEN CameraChain[1] ELSE "idle"

\* set_cursor_grab(cursor, window, grabbed): the cursor options it leaves.
set_cursor_grab(grabbed) ==
    IF grabbed THEN [grab_mode |-> "Locked", visible |-> FALSE]
    ELSE [grab_mode |-> "None", visible |-> TRUE]

\* The run condition cursor_is_grabbed.
cursor_is_grabbed == grab_mode = "Locked"

\* The MouseWheel events (event.y) a frame's reader can hold.
ScrollSamples == {<<>>, <<0>>, <<100>>, <<-100>>, <<-100, 100>>}

\* The MouseMotion events (event.delta) a frame's reader can hold.
MotionSamples ==
    {<<>>, << <<1, 0>> >>, << <<0, 1>> >>, << <<0, -1>> >>,
     << <<1, 0>>, <<-1, 0>> >>}

\* The sets of keys that keyboard.pressed can report.
KeySamples ==
    {{}, {"KeyW"}, {"KeyS"}, {"KeyA"}, {"KeyD"}, {"Space"}, {"ControlLeft"},
     {"KeyW", "KeyS"}, {"KeyW", "ShiftLeft"}}

\* speed * 1.1^scroll in whole meters per second, ten notches at a time
\* (1.1^10 is 2.594) and then one at a time; a speed that has left the
\* range MIN_SPEED..MAX_SPEED is not scaled further, the clamp that follows
\* gives the same.
RECURSIVE ScaleSpeed(_, _)
ScaleSpeed(speed, scroll) ==
    IF scroll = 0 \/ speed > MAX_SPEED \/ speed < MIN_SPEED THEN speed
    ELSE IF scroll >= 10
         THEN ScaleSpeed((speed * 2594) \div 1000, scroll - 10)
    ELSE IF scroll > 0 THEN ScaleSpeed((speed * 11) \div 10, scroll - 1)
    ELSE IF scroll <= 0 - 10
         THEN ScaleSpeed((speed * 1000) \div 2594, scroll + 10)
    ELSE ScaleSpeed((speed * 10) \div 11, scroll + 1)

\* .clamp(MIN_SPEED, MAX_SPEED)
ClampSpeed(speed) ==
    IF speed < MIN_SPEED THEN MIN_SPEED
    ELSE IF speed > MAX_SPEED THEN MAX_SPEED ELSE speed

\* for event in scroll_events.read() { ... }
RECURSIVE ScrollAll(_, _)
ScrollAll(speed, events) ==
    IF events = <<>> THEN speed
    ELSE ScrollAll(IF Head(events) # 0
                   THEN ClampSpeed(ScaleSpeed(speed, Head(events)))
                   ELSE speed,
                   Tail(events))

\* delta += event.delta, over the events read.
RECURSIVE MotionDelta(_)
MotionDelta(events) ==
    IF events = <<>> THEN <<0, 0>>
    ELSE <<Head(events)[1] + MotionDelta(Tail(events))[1],
           Head(events)[2] + MotionDelta(Tail(events))[2]>>

\* The direction camera_look leaves for a mouse delta: yaw by delta.x,
\* pitch by -delta.y, no pitch further down when looking straight down nor
\* further up when looking straight up.
Look(dir, delta) ==
    LET yaw == delta[1]
        p == 0 - delta[2]
        pitch == IF \/ (dir[2] <= 0 - PitchLimit /\ p < 0)
                    \/ (dir[2] >= PitchLimit /\ p > 0)
                 THEN 0 ELSE p
    IN  <<(dir[1] + yaw) % YawSteps, dir[2] + pitch>>

\* The movement camera_movement accumulates from the pressed keys, along
\* forward, right and up.
Movement(keys) ==
    LET k(key) == IF key \in keys THEN 1 ELSE 0
    IN  <<k("KeyW") - k("KeyS"), k("KeyD") - k("KeyA"),
          k("Space") - (IF {"ControlLeft", "ControlRight"} \cap keys # {}
                        THEN 1 ELSE 0)>>

\* new_altitude < 10_000_000.0 && new_altitude > -100.0, as the range of
\* positions the model keeps.
AltitudeInRange(p) == \A i \in 1..3 : p[i] <= MaxPos /\ p[i] >= 0 - MaxPos

\* Startup: grab_cursor.
grab_cursor ==
    /\ camera_pc = "startup"
    /\ camera_pc' = "idle"
    /\ grab_mode' = set_cursor_grab(TRUE).grab_mode
    /\ cursor_visible' = set_cursor_grab(TRUE).visible
    /\ UNCHANGED <<keyboard_just_pressed, is_grabbed, base_speed, direction,
                   position, origin_position, decodeVars, loaderVars,
                   taskVars>>

\* A frame begins: the input of the frame is in, the chain starts.
CameraBeginFrame ==
    /\ camera_pc = "idle"
    /\ camera_pc' = ChainNext(camera_pc)
    /\ keyboard_just_pressed' \in SUBSET {"Escape"}
    /\ UNCHANGED <<grab_mode, cursor_visible, is_grabbed, base_speed,
                   direction, position, origin_position, decodeVars,
                   loaderVars, taskVars>>

cursor_grab_system ==
    /\ camera_pc = "cursor_grab_system"
    /\ camera_pc' = ChainNext(camera_pc)
    /\ is_grabbed' = (grab_mode = "Locked")
    /\ \E mouse_left \in BOOLEAN : \E egui_wants_pointer \in BOOLEAN :
          IF "Escape" \in keyboard_just_pressed /\ is_grabbed'
          THEN /\ grab_mode' = set_cursor_grab(FALSE).grab_mode
               /\ cursor_visible' = set_cursor_grab(FALSE).visible
          ELSE IF mouse_left /\ ~is_grabbed' /\ ~egui_wants_pointer
          THEN /\ grab_mode' = set_cursor_grab(TRUE).grab_mode
               /\ cursor_visible' = set_cursor_grab(TRUE).visible
          ELSE UNCHANGED <<grab_mode, cursor_visible>>
    /\ UNCHANGED <<keyboard_just_pressed, base_speed, direction, position,
                   origin_position, decodeVars, loaderVars, taskVars>>

\* adjust_speed_with_scroll without its run condition.
adjust_speed_with_scroll_Unconditional ==
    /\ camera_pc = "adjust_speed_with_scroll"
    /\ camera_pc' = ChainNext(camera_pc)
    /\ \E events \in ScrollSamples :
          base_speed' = ScrollAll(base_speed, events)
    /\ UNCHANGED <<grab_mode, cursor_visible, keyboard_just_pressed,
                   is_grabbed, direction, position, origin_position,
                   decodeVars, loaderVars, taskVars>>

\* adjust_speed_with_scroll.run_if(cursor_is_grabbed)
adjust_speed_with_scroll ==
    /\ camera_pc = "adjust_speed_with_scroll"
    /\ camera_pc' = ChainNext(camera_pc)
    /\ IF cursor_is_grabbed
       THEN \E events \in ScrollSamples :
               base_speed' = ScrollAll(base_speed, events)
       ELSE UNCHANGED base_speed
    /\ UNCHANGED <<grab_mode, cursor_visible, keyboard_just_pressed,
                   is_grabbed, direction, position, origin_position,
                   decodeVars, loaderVars, taskVars>>

\* camera_look.run_if(cursor_is_grabbed)
camera_look ==
    /\ camera_pc = "camera_look"
    /\ camera_pc' = ChainNext(camera_pc)
    /\ IF cursor_is_grabbed
       THEN \E events \in MotionSamples :
               IF MotionDelta(events) = <<0, 0>>
               THEN UNCHANGED direction
               ELSE direction' = Look(direction, MotionDelta(events))
       ELSE UNCHANGED direction
    /\ UNCHANGED <<grab_mode, cursor_visible, keyboard_just_pressed,
                   is_grabbed, base_speed, position, origin_position,
                   decodeVars, loaderVars, taskVars>>

\* camera_movement.run_if(not(egui_wants_any_keyboard_input))
camera_movement ==
    /\ camera_pc = "camera_movement"
    /\ camera_pc' = ChainNext(camera_pc)
    /\ \E egui_wants_any_keyboard_input \in BOOLEAN : \E keys \in KeySamples :
          LET movement == Movement(keys)
              new_position == [i \in 1..3 |-> position[i] + movement[i]]
          IN  IF /\ ~egui_wants_any_keyboard_input
                 /\ movement # <<0, 0, 0>>
                 /\ AltitudeInRange(new_position)
              THEN position' = new_position
              ELSE UNCHANGED position
    /\ UNCHANGED <<grab_mode, cursor_visible, keyboard_just_pressed,
                   is_grabbed, base_speed, direction, origin_position,
                   decodeVars, loaderVars, taskVars>>

sync_floating_origin ==
    /\ camera_pc = "sync_floating_origin"
    /\ camera_pc' = ChainNext(camera_pc)
    /\ origin_position' = position
    /\ UNCHANGED <<grab_mode, cursor_visible, keyboard_just_pressed,
                   is_grabbed, base_speed, direction, position, decodeVars,
                   loaderVars, taskVars>>

InitCamera == DecodeIdle /\ LoaderDefault /\ TaskDefault /\ CameraDefault

NextCamera ==
    \/ grab_cursor
    \/ CameraBeginFrame
    \/ cursor_grab_system
    \/ adjust_speed_with_scroll
    \/ camera_look
    \/ camera_movement
    \/ sync_floating_origin

SpecCamera == InitCamera /\ [][NextCamera]_vars

-----------------------------------------------------------------------------

(* Reference arithmetic the properties are stated with.                    *)

\* Sum of the bytes s[from], ..., s[to].
RECURSIVE SumRange(_, _, _)
SumRange(s, from, to) ==
    IF to < from THEN 0 ELSE s[to] + SumRange(s, from, to - 1)

\* The i-th value (1-based) of the delta-decoded plane number `plane`
\* (0 = X, 1 = Y, 2 = Z) of a 3N-byte blob, with 8-bit wraparound.
PlaneValue(s, plane, i) ==
    LET n == Len(s) \div 3
    IN  SumRange(s, plane * n + 1, plane * n + i) % 256

\* A byte with the varint continuation bit set.
IsContinuation(b) == b >= 128

\* A stream of complete varints of at most three bytes each (the width a
\* 16-bit index needs): it does not end in a continuation byte and has no
\* run of more than two continuation bytes.
WellFormedVarints(s) ==
    /\ Len(s) > 0 => ~IsContinuation(s[Len(s)])
    /\ \A i \in 1..Len(s) :
         (i + 2 <= Len(s)) =>
            ~(IsContinuation(s[i]) /\ IsContinuation(s[i + 1])
                /\ IsContinuation(s[i + 2]))

\* Number of varints of a well-formed stream: one per terminating byte.
NumVarints(s) == Cardinality({i \in 1..Len(s) : ~IsContinuation(s[i])})

ShiftRight(x, n) == x \div Pow2(n)

\* The i-th (0-based) 3-bit group above the two level bits.
OctantDigit(p, i) == ShiftRight(p, 2 + 3 * i) % 8

DigitChars == <<"0", "1", "2", "3", "4", "5", "6", "7">>

\* Little-endian signed 16-bit value of two bytes.
I16(lo, hi) ==
    LET u == lo + 256 * hi IN IF u >= 32768 THEN u - 65536 ELSE u

\* The three center-offset components of a 15-byte OBB blob.
ObbCenterOffset(s) == <<I16(s[1], s[2]), I16(s[3], s[4]), I16(s[5], s[6])>>

\* The three extent bytes of a 15-byte OBB blob.
ObbExtentBytes(s) == <<s[7], s[8], s[9]>>

Scale3(v, k) == <<v[1] * k, v[2] * k, v[3] * k>>

Add3(a, b) == <<a[1] + b[1], a[2] + b[2], a[3] + b[3]>>

-----------------------------------------------------------------------------
(* Properties.                                                             *)

\* C1: on a blob of 3N bytes unpack_vertices returns Ok with exactly N
\* vertices, vertex i holding the running sums mod 256 of the X-, Y- and
\* Z-plane up to i in x, y and z, and zero in w, u and v.
C1_VerticesAreRunningSums ==
    (Returned("unpack_vertices") /\ Len(packed) % 3 = 0) =>
        /\ result.kind = "Ok"
        /\ Len(result.value) = Len(packed) \div 3
        /\ \A i \in 1..(Len(packed) \div 3) :
              /\ result.value[i].x = PlaneValue(packed, 0, i)
              /\ result.value[i].y = PlaneValue(packed, 1, i)
              /\ result.value[i].z = PlaneValue(packed, 2, i)
              /\ result.value[i].w = 0
              /\ result.value[i].u = 0
              /\ result.value[i].v = 0

\* C2: on a blob whose length is not a multiple of 3 unpack_vertices
\* returns the InvalidLength error.
C2_VerticesRejectBadLength ==
    (Returned("unpack_vertices") /\ Len(packed) % 3 # 0) =>
        /\ result.kind = "Err"
        /\ result.error = "InvalidLength"

\* C3: on a well-formed stream of k complete varints unpack_indices returns
\* Ok with exactly k indices (k = 0 for the empty stream).
C3_IndicesOnePerVarint ==
    (Returned("unpack_indices") /\ WellFormedVarints(packed)) =>
        /\ result.kind = "Ok"
        /\ Len(result.value) = NumVarints(packed)

\* C4: the stream [2,2,2] decodes to three indices whose last two are
\* equal: repeated indices are kept, not filtered.
C4_IndicesKeepDegenerates ==
    (Returned("unpack_indices") /\ packed = <<2, 2, 2>>) =>
        /\ result.kind = "Ok"
        /\ Len(result.value) = 3
        /\ result.value[2] = result.value[3]

\* C5: unpack_path_and_flags returns, for every input, a level in 1..4.
C5_LevelInRange ==
    Returned("unpack_path_and_flags") => result.level \in 1..4

\* C6: unpack_path_and_flags(p) returns level = (p mod 4) + 1, a path of
\* `level` octal digit characters taken from the 3-bit groups above the
\* level bits (in root-first or in leaf-first order), and flags = p shifted
\* right by 2 + 3*level bits.
C6_PathAndFlagsFields ==
    Returned("unpack_path_and_flags") =>
        LET p == path_and_flags
            level == (p % 4) + 1
        IN  /\ result.level = level
            /\ Len(result.path) = level
            /\ \/ \A i \in 1..level :
                     result.path[i] = DigitChars[OctantDigit(p, i - 1) + 1]
               \/ \A i \in 1..level :
                     result.path[i] = DigitChars[OctantDigit(p, level - i) + 1]
            /\ result.flags = ShiftRight(p, 2 + 3 * level)

\* C7: on a blob that is not exactly 15 bytes long unpack_obb returns the
\* InvalidLength error, whatever the center and the scale are.
C7_ObbRejectsBadLength ==
    (Returned("unpack_obb") /\ Len(packed) # 15) =>
        /\ result.kind = "Err"
        /\ result.error = "InvalidLength"

\* C8: on a 15-byte blob unpack_obb returns center = head_node_center +
\* center_offset * meters_per_texel and extents = extent_bytes *
\* meters_per_texel.
C8_ObbCenterAndExtents ==
    (Returned("unpack_obb") /\ Len(packed) = 15) =>
        /\ result.kind = "Ok"
        /\ result.value.center =
              Add3(head_node_center,
                   Scale3(ObbCenterOffset(packed), meters_per_texel))
        /\ result.value.extents =
              Scale3(ObbExtentBytes(packed), meters_per_texel)

\* C9: when unpack_octant_mask_and_layer_bounds does not fail, the last of
\* the 10 layer bounds equals the number of indices passed in.
C9_LastBoundIsIndexCount ==
    (Returned("unpack_octant_mask_and_layer_bounds") /\ result.kind = "Ok") =>
        result.value[LayerBoundsLen] = Len(indices)

\* C10: when unpack_octant_mask_and_layer_bounds does not fail, the 10
\* layer bounds are non-decreasing.
C10_LayerBoundsNonDecreasing ==
    (Returned("unpack_octant_mask_and_layer_bounds") /\ result.kind = "Ok") =>
        /\ Len(result.value) = LayerBoundsLen
        /\ \A i \in 1..(LayerBoundsLen - 1) :
              result.value[i] <= result.value[i + 1]

\* The octant step has returned its bounds for a non-empty index sequence
\* and a non-empty counts blob.
C10_Witness ==
    /\ Returned("unpack_octant_mask_and_layer_bounds")
    /\ result.kind = "Ok"
    /\ Len(indices) > 0
    /\ Len(packed) > 0

\* Sum of the values of the varints of a well-formed stream, from byte i
\* on, the byte at i carrying its 7 data bits at weight 128^k.
RECURSIVE VarintSum(_, _, _)
VarintSum(s, i, k) ==
    IF i > Len(s) THEN 0
    ELSE (s[i] % 128) * Pow2(7 * k)
         + VarintSum(s, i + 1, IF IsContinuation(s[i]) THEN k + 1 ELSE 0)

\* C11: when the counts encoded in the blob (a well-formed varint stream)
\* do not sum to the number of indices passed in,
\* unpack_octant_mask_and_layer_bounds returns InvalidLength or Malformed.
C11_OctantCountsMismatchFails ==
    (/\ Returned("unpack_octant_mask_and_layer_bounds")
     /\ WellFormedVarints(packed)
     /\ VarintSum(packed, 1, 0) # Len(indices)) =>
        /\ result.kind = "Err"
        /\ result.error \in {"InvalidLength", "Malformed"}

\* Little-endian unsigned 16-bit value of two bytes.
U16(lo, hi) == lo + 256 * hi

\* The modulo bounds in the header of a texture-coordinate blob.
TexUMod(s) == U16(s[1], s[2])

TexVMod(s) == U16(s[3], s[4])

\* The U and V deltas of vertex k (1-based): 2 bytes U and 2 bytes V out of
\* the 4 bytes the blob holds per vertex after its header.
TexDeltaU(s, k) == U16(s[4 + 4 * (k - 1) + 1], s[4 + 4 * (k - 1) + 2])

TexDeltaV(s, k) == U16(s[4 + 4 * (k - 1) + 3], s[4 + 4 * (k - 1) + 4])

\* Running sum of the deltas of vertices 1..i, wrapped at the bound m after
\* every addition.
RECURSIVE TexRunningU(_, _, _)
TexRunningU(s, i, m) ==
    IF i = 0 THEN 0 ELSE (TexRunningU(s, i - 1, m) + TexDeltaU(s, i)) % m

RECURSIVE TexRunningV(_, _, _)
TexRunningV(s, i, m) ==
    IF i = 0 THEN 0 ELSE (TexRunningV(s, i - 1, m) + TexDeltaV(s, i)) % m

\* C12: when the bytes after the 4-byte header are not a multiple of 4 or
\* not 4 times the number of vertices, unpack_tex_coords returns the
\* InvalidLength error.
C12_TexCoordsRejectBadLength ==
    (/\ Returned("unpack_tex_coords")
     /\ Len(packed) >= 4
     /\ \/ (Len(packed) - 4) % 4 # 0
        \/ Len(packed) - 4 # 4 * Len(vertices)) =>
        /\ result.kind = "Err"
        /\ result.error = "InvalidLength"

\* C13: on a valid blob (header with non-zero bounds, 4N bytes, N
\* vertices) unpack_tex_coords succeeds, writes the running sums of the U
\* and V deltas wrapped at u_mod and v_mod into u and v of every vertex, and
\* leaves x, y, z and w as they were.
C13_TexCoordsAreRunningSums ==
    (/\ Returned("unpack_tex_coords")
     /\ Len(packed) = 4 + 4 * Len(vertices)
     /\ TexUMod(packed) > 0
     /\ TexVMod(packed) > 0) =>
        /\ result.kind = "Ok"
        /\ \A i \in 1..Len(vertices) :
              /\ vertices[i].u = TexRunningU(packed, i, TexUMod(packed))
              /\ vertices[i].v = TexRunningV(packed, i, TexVMod(packed))
              /\ vertices[i].x = TexVertexBuffer(Len(vertices))[i].x
              /\ vertices[i].y = TexVertexBuffer(Len(vertices))[i].y
              /\ vertices[i].z = TexVertexBuffer(Len(vertices))[i].z
              /\ vertices[i].w = TexVertexBuffer(Len(vertices))[i].w

\* C14: on a blob whose length is not a multiple of 3 unpack_for_normals
\* returns the InvalidLength error.
C14_ForNormalsRejectBadLength ==
    (Returned("unpack_for_normals") /\ Len(packed) % 3 # 0) =>
        /\ result.kind = "Err"
        /\ result.error = "InvalidLength"

\* C15: on a blob whose length is a multiple of 3 unpack_for_normals
\* returns Ok with the same bytes in the same order.
C15_ForNormalsPassThrough ==
    (Returned("unpack_for_normals") /\ Len(packed) % 3 = 0) =>
        /\ result.kind = "Ok"
        /\ result.value = packed

\* C16: when the lookup-index bytes or the table is absent, unpack_normals
\* returns Ok with exactly vertex_count * 4 bytes, all of one value.
C16_NormalsFallbackBuffer ==
    (/\ Returned("unpack_normals")
     /\ (~mesh_normals.some \/ ~for_normals.some)) =>
        /\ result.kind = "Ok"
        /\ Len(result.value) = 4 * vertex_count
        /\ \A i, j \in 1..(4 * vertex_count) :
              result.value[i] = result.value[j]

\* The positions k >= 1 after the offset at which a byte without the
\* continuation bit stands.
VarintTerminators(s, off) ==
    {k \in 1..(Len(s) - off) : ~IsContinuation(s[off + k])}

\* The first of them.
VarintEnd(s, off) ==
    CHOOSE k \in VarintTerminators(s, off) :
        \A j \in VarintTerminators(s, off) : k <= j

\* Little-endian base-128 value of the n bytes after the offset.
RECURSIVE Base128(_, _, _)
Base128(s, off, n) ==
    IF n = 0 THEN 0
    ELSE Base128(s, off, n - 1) + (s[off + n] % 128) * Pow2(7 * (n - 1))

\* The first VarintMaxContinuation + 1 bytes after the offset all exist and
\* all carry the continuation bit.
VarintOverlong(s, off) ==
    /\ Len(s) - off >= VarintMaxContinuation + 1
    /\ \A k \in 1..(VarintMaxContinuation + 1) : IsContinuation(s[off + k])

\* C17: read_varint returns the little-endian base-128 value of the varint
\* at the offset with the number of bytes it took; Malformed when more
\* continuation bytes come than the target width needs; Truncated when the
\* slice ends before a byte without the continuation bit.
C17_ReadVarintContract ==
    Returned("read_varint") =>
        IF VarintOverlong(packed, offset)
        THEN result.kind = "Err" /\ result.error = "Malformed"
        ELSE IF VarintTerminators(packed, offset) = {}
        THEN result.kind = "Err" /\ result.error = "Truncated"
        ELSE /\ result.kind = "Ok"
             /\ result.value.consumed = VarintEnd(packed, offset)
             /\ result.value.value =
                   Base128(packed, offset, VarintEnd(packed, offset))

\* A two-byte varint was read at a non-zero offset.
C17_Witness ==
    /\ Returned("read_varint")
    /\ offset > 0
    /\ result.kind = "Ok"
    /\ result.value.consumed = 2
    /\ result.value.value = 383

-----------------------------------------------------------------------------
(* Properties of the channel-based loader.                                 *)

\* C19: the root bulk fetch exists only once poll_planetoid_task has taken
\* an Ok planetoid result and stored it: whenever a bulk task has been
\* spawned, a bulk result is queued, or root_bulk is Some, planetoid is Some
\* and the planetoid channel has been emptied.
C19_BulkOnlyAfterPlanetoid ==
    (bulk_tasks # <<>> \/ bulk_chan # <<>> \/ root_bulk.some) =>
        (planetoid.some /\ planetoid_chan = <<>>)

\* A bulk result is queued while the planetoid is loaded.
C19_Witness == bulk_chan # <<>> /\ planetoid.some /\ ~root_bulk.some

\* The planetoid fetch has returned Ok.
PlanetoidFetchedOk ==
    \E i \in DOMAIN planetoid_tasks :
        planetoid_tasks[i].pc # "fetch" /\ planetoid_tasks[i].result.kind = "Ok"

\* The root bulk fetch has returned Ok.
BulkFetchedOk ==
    \E i \in DOMAIN bulk_tasks :
        bulk_tasks[i].pc # "fetch" /\ bulk_tasks[i].result.kind = "Ok"

\* C20: once the planetoid fetch has returned Ok, planetoid eventually is
\* Some; once the root bulk fetch has returned Ok, root_bulk eventually is
\* Some (with the Update systems and the task runtime running).
C20_MetadataLoadingCompletes ==
    /\ PlanetoidFetchedOk ~> planetoid.some
    /\ BulkFetchedOk ~> root_bulk.some

\* Metadata loading is complete.
C20_Witness == planetoid.some /\ root_bulk.some

\* The planetoid fetch has returned Err.
PlanetoidFetchedErr ==
    \E i \in DOMAIN planetoid_tasks :
        planetoid_tasks[i].pc # "fetch" /\ planetoid_tasks[i].result.kind = "Err"

\* The root bulk fetch has returned Err.
BulkFetchedErr ==
    \E i \in DOMAIN bulk_tasks :
        bulk_tasks[i].pc # "fetch" /\ bulk_tasks[i].result.kind = "Err"

\* C21: in every state after the planetoid fetch has returned Err,
\* planetoid and root_bulk are None and no bulk fetch has been spawned; in
\* every state after the root bulk fetch has returned Err, root_bulk is
\* None.
C21_FetchErrorIsFinal ==
    /\ PlanetoidFetchedErr =>
          (~planetoid.some /\ ~root_bulk.some /\ bulk_tasks = <<>>)
    /\ BulkFetchedErr => ~root_bulk.some

\* poll_planetoid_task has taken the Err off the channel and the frame has
\* gone on.
C21_Witness ==
    /\ PlanetoidFetchedErr
    /\ planetoid_chan = <<>>
    /\ \A i \in DOMAIN planetoid_tasks : planetoid_tasks[i].pc = "done"
    /\ "poll_planetoid_task" \notin pending_systems

\* C22: at most one planetoid fetch and at most one root bulk fetch are
\* ever spawned, and once planetoid (root_bulk) is Some no step changes it.
C22_LoadedOnce ==
    /\ [](Len(planetoid_tasks) <= 1 /\ Len(bulk_tasks) <= 1)
    /\ [][/\ planetoid.some => planetoid' = planetoid
          /\ root_bulk.some => root_bulk' = root_bulk]_vars

\* Both poll systems are about to run with their fields already Some.
C22_Witness ==
    /\ planetoid.some
    /\ root_bulk.some
    /\ pending_systems = UpdateSystems

\* The tasks of a list that have sent their message.
Sent(tasks) == {i \in DOMAIN tasks : tasks[i].pc = "done"}

\* C23: each channel carries at most one message over the run, never holds
\* more than one, and is empty whenever a task is about to send (the send
\* does not wait).
C23_ChannelsNeverFull ==
    /\ Cardinality(Sent(planetoid_tasks)) <= 1
    /\ Cardinality(Sent(bulk_tasks)) <= 1
    /\ Len(planetoid_chan) <= 1
    /\ Len(bulk_chan) <= 1
    /\ \A i \in DOMAIN planetoid_tasks :
          planetoid_tasks[i].pc = "send" => planetoid_chan = <<>>
    /\ \A i \in DOMAIN bulk_tasks :
          bulk_tasks[i].pc = "send" => bulk_chan = <<>>

\* Each channel has carried its one message; the bulk one is still queued.
C23_Witness ==
    /\ Sent(planetoid_tasks) # {}
    /\ Sent(bulk_tasks) # {}
    /\ bulk_chan # <<>>

\* A despawn of entity e is queued in the Commands.
DespawnQueued(e) ==
    \E i \in DOMAIN commands : commands[i] = [op |-> "despawn", entity |-> e]

\* C24: no task is found finished by more than one poll, and an entity
\* whose task a poll has found finished, with an Ok or an Err result, is
\* despawned or has its despawn queued from that poll on.
C24_FinishedTaskDespawnedOnce ==
    \A e \in DOMAIN entities :
        /\ entities[e].taken <= 1
        /\ entities[e].taken = 1 =>
              (entities[e].alive = "despawned" \/ DespawnQueued(e))

\* A node task that failed has been polled and its entity is gone, next to
\* a planetoid task that succeeded.
C24_Witness ==
    /\ \E e \in DOMAIN entities :
          /\ entities[e].component = "NodeTask"
          /\ entities[e].result.kind = "Err"
          /\ entities[e].taken = 1
          /\ entities[e].alive = "despawned"
    /\ \E e \in DOMAIN entities :
          /\ entities[e].component = "PlanetoidTask"
          /\ entities[e].result.kind = "Ok"
          /\ entities[e].alive = "despawned"

\* The nodes of a list that have data, in the list's order.
DataNodes(nodes) == SelectSeq(nodes, LAMBDA n : n.has_data)

\* The requests for the first min(3, number of nodes with data) nodes that
\* have data.
FirstDataRequests(nodes) ==
    LET d == DataNodes(nodes)
    IN  [i \in 1..(IF Len(d) < 3 THEN Len(d) ELSE 3) |-> NodeRequest_new(d[i])]

\* The node requests the loader has issued, in the order it issued them.
NodeTaskRequests ==
    LET ts == SelectSeq(entities, LAMBDA x : x.component = "NodeTask")
    IN  [i \in 1..Len(ts) |-> ts[i].request]

\* Entity e held a bulk task that a poll found finished with an Ok result.
BulkLoaded(e) ==
    /\ entities[e].component = "BulkTask"
    /\ entities[e].taken >= 1
    /\ entities[e].result.kind = "Ok"

IsPrefix(s, t) == Len(s) <= Len(t) /\ s = SubSeq(t, 1, Len(s))

\* C25 as stated: for a loaded bulk the node requests of poll_bulk_task,
\* and those of a call of fetch_nodes, are exactly the requests for the
\* first min(3, number of nodes with data) nodes that have data.
C25_Original ==
    /\ \A e \in DOMAIN entities :
          BulkLoaded(e) =>
             NodeTaskRequests =
                FirstDataRequests(entities[e].result.value.nodes)
    /\ fetch_nodes_run.status # "not run" =>
          fetch_nodes_run.requests = FirstDataRequests(fetch_nodes_run.nodes)

\* C25, amended: for a loaded bulk the node requests of poll_bulk_task are
\* exactly the requests for the first min(3, number of nodes with data)
\* nodes that have data; so are those of a call of fetch_nodes that returns
\* Ok, and those of a call that returns Err are a non-empty prefix of them,
\* ending with the request that failed.
C25_FirstThreeNodesWithData ==
    /\ \A e \in DOMAIN entities :
          BulkLoaded(e) =>
             NodeTaskRequests =
                FirstDataRequests(entities[e].result.value.nodes)
    /\ \A e \in DOMAIN entities :
          (entities[e].component = "BulkTask" /\ entities[e].taken = 0) =>
             NodeTaskRequests = <<>>
    /\ fetch_nodes_run.status = "Ok" =>
          fetch_nodes_run.requests = FirstDataRequests(fetch_nodes_run.nodes)
    /\ fetch_nodes_run.status = "Err" =>
          /\ fetch_nodes_run.requests # <<>>
          /\ IsPrefix(fetch_nodes_run.requests,
                      FirstDataRequests(fetch_nodes_run.nodes))

\* A bulk whose first node has no data and which has more than three nodes
\* with data has been loaded: three node requests are out.
C25_Witness ==
    \E e \in DOMAIN entities :
        /\ BulkLoaded(e)
        /\ Len(DataNodes(entities[e].result.value.nodes)) > 3
        /\ ~entities[e].result.value.nodes[1].has_data
        /\ Len(NodeTaskRequests) = 3

\* Escape has released the cursor in the current frame: cursor_grab_system
\* has run, it found the cursor grabbed and Escape just pressed.
EscapeReleased ==
    /\ camera_pc \in {"adjust_speed_with_scroll", "camera_look",
                      "camera_movement", "sync_floating_origin"}
    /\ "Escape" \in keyboard_just_pressed
    /\ is_grabbed

\* C26: the Update systems run in the order cursor_grab_system,
\* adjust_speed_with_scroll, camera_look, camera_movement,
\* sync_floating_origin; the scroll and look steps change base_speed and
\* direction only when the cursor is Locked at that step; and in a frame
\* where Escape has released the cursor, the cursor stays free and no step
\* changes base_speed or direction.
C26_ChainAndGrabCondition ==
    [][/\ camera_pc \in {CameraChain[i] : i \in 1..Len(CameraChain)} =>
            /\ camera_pc' = ChainNext(camera_pc)
            /\ camera_pc = "sync_floating_origin" => camera_pc' = "idle"
       /\ camera_pc = "idle" => camera_pc' = "cursor_grab_system"
       /\ (/\ camera_pc \in {"adjust_speed_with_scroll", "camera_look"}
           /\ grab_mode # "Locked") =>
             (base_speed' = base_speed /\ direction' = direction)
       /\ EscapeReleased =>
             /\ grab_mode = "None"
             /\ base_speed' = base_speed
             /\ direction' = direction]_vars

\* Escape released the cursor in this frame, after frames in which scroll
\* and mouse motion had changed the speed and the direction; the scroll and
\* look steps of this frame are over.
C26_Witness ==
    /\ EscapeReleased
    /\ camera_pc = "camera_movement"
    /\ base_speed # DefaultBaseSpeed
    /\ direction # <<0, 0>>

====
